---- MODULE Spec2Model ----
(***************************************************************************)
(* Model of src/blur_simd.c: the two SIMD blur backends blur_impl_sse2 and *)
(* blur_impl_avx, each of which builds a 7-tap kernel and runs its         *)
(* horizontal pass twice (src -> dst transposed, dst -> src transposed).   *)
(*                                                                         *)
(* A pixel is the tuple of its 4 bytes <<b1,b2,b3,b4>> (a uint32_t seen as *)
(* the 4 byte lanes the intrinsics operate on).  A buffer is a function    *)
(* from 0..n-1 to pixels.  One action is one iteration of the inner loop   *)
(* of a horizontal pass (one output pixel).                                *)
(*                                                                         *)
(* Reads outside a buffer or outside a local array are undefined           *)
(* behaviour.  Their outcome is whatever the memory holds: the model       *)
(* chooses that content nondeterministically when a call starts (heapOob   *)
(* for addresses outside the pixel buffers, stackPix / stackKer for stack  *)
(* slots outside the local arrays).                                        *)
(*                                                                         *)
(* float values are modelled in fixed point: a kernel weight w is the      *)
(* integer round(w * KScale); products and sums are exact integers, and    *)
(* the conversion back to an integer rounds to nearest-even as             *)
(* _mm_cvtps_epi32 does.                                                   *)
(***************************************************************************)
EXTENDS Integers, FiniteSets, Sequences, TLC

\* ---------------------------------------------------------------- constants
KERNEL_SIZE == 7
HALF_KERNEL == KERNEL_SIZE \div 2
REGISTERS_CNT == (KERNEL_SIZE + 4 \div 2) \div 4

\* ------------------------------------------------------------------- bounds
MaxDim == 6
ScenarioDim == 10
TwiceDim == 7

\* fixed-point scale of a float weight
KScale == 16384
Channels == 1..4
Black == <<0, 0, 0, 0>>
White == <<255, 255, 255, 255>>
Red == <<255, 0, 0, 255>>
Grey == <<128, 128, 128, 128>>

Sigmas == {1, 2}
ImageKinds == {"flatRed", "flatGrey", "impulse", "ramp"}
GarbagePixels == {Black, White}
GarbageWeights == {0, KScale}
Backends == {"sse2", "avx"}

Dims == ((1..MaxDim) \X (1..MaxDim)) \cup {<<MaxDim + 1, MaxDim + 1>>, <<ScenarioDim, ScenarioDim>>}
TwiceDims == {<<4, 4>>, <<TwiceDim, TwiceDim>>}

VARIABLES backend, width, height, sigma, kernel, src, dst, orig,
          heapOob, stackPix, stackKer,
          pc, row, column, pos, last, trace2, written,
          call, firstOut

vars == <<backend, width, height, sigma, kernel, src, dst, orig,
          heapOob, stackPix, stackKer,
          pc, row, column, pos, last, trace2, written,
          call, firstOut>>

\* ------------------------------------------------------------ input images
ImagePixel(kind, i, n) ==
    CASE kind = "flatRed" -> Red
      [] kind = "flatGrey" -> Grey
      [] kind = "impulse" -> IF i = n \div 2 THEN White ELSE Black
      [] OTHER -> <<(37 * i) % 256, (i * i) % 256, 255 - (i % 256), (11 * i + 5) % 256>>

Image(kind, n) == [i \in 0..(n - 1) |-> ImagePixel(kind, i, n)]

\* --------------------------------------------------------------- the kernel
\* coeff * expf(-x*x / (2*sigma*sigma)) for x = HALF_KERNEL - i, as
\* round(value * 65536), tabulated for the sigmas of the model
Gauss(s, i) ==
    LET x == IF HALF_KERNEL - i < 0 THEN i - HALF_KERNEL ELSE HALF_KERNEL - i
    IN  IF s = 1
        THEN CASE x = 0 -> 26145 [] x = 1 -> 15858 [] x = 2 -> 3538 [] OTHER -> 290
        ELSE CASE x = 0 -> 13073 [] x = 1 -> 11536 [] x = 2 -> 7929 [] OTHER -> 4244

RECURSIVE GaussSum(_, _)
GaussSum(s, n) == IF n = 0 THEN 0 ELSE GaussSum(s, n - 1) + Gauss(s, n - 1)

\* kernel[i] /= sum, as a fixed-point weight
BuildKernel(s) ==
    LET sum == GaussSum(s, KERNEL_SIZE)
    IN  [i \in 0..(KERNEL_SIZE - 1) |-> (2 * Gauss(s, i) * KScale + sum) \div (2 * sum)]

\* ------------------------------------------------------------------- memory
\* *(buf + idx): the pixel of the buffer, or whatever lies outside it
Read(buf, n, idx) == IF idx \in 0..(n - 1) THEN buf[idx] ELSE heapOob

\* the store without the row term: dst + height * column
StoreIndexNoRow(h, c, r) == h * c

\* dst + height * column + row
StoreIndex(h, c, r) == h * c + r

\* ------------------------------------------------------ the pixel gatherer
leftBorder(c) == c < HALF_KERNEL
rightBorder(c, w) == c > w - HALF_KERNEL

BorderCase(c, w) ==
    IF leftBorder(c) THEN "left" ELSE IF rightBorder(c, w) THEN "right" ELSE "interior"

\* the left border without the mirrored slots: every slot at offset i - HALF_KERNEL
LeftOffsetNoMirror(i, c) == 0 - (HALF_KERNEL - i)

\* offset from the current pixel of the pixel copied to _rgbaIn[i], left border
LeftOffset(i, c) ==
    IF i < HALF_KERNEL - c THEN HALF_KERNEL - i ELSE 0 - (HALF_KERNEL - i)

\* the right border mirrored about the last pixel of the row instead of the
\* current one
RightOffsetFromEnd(i, c, w) ==
    IF i < w - c THEN i ELSE (w - 1 - c) - (i - (w - c))

\* offset from the current pixel of the pixel copied to _rgbaIn[i], right border
RightOffset(i, c, w) ==
    IF i < w - c THEN i ELSE 0 - (i - (w - c))

\* offset of pixel j of the two unaligned loads src + 4*k - HALF_KERNEL
InteriorOffset(j) == j - HALF_KERNEL

\* buffer index read for window slot i (0..6)
SlotIndex(i, c, w, p) ==
    CASE BorderCase(c, w) = "left" -> p + LeftOffset(i, c)
      [] BorderCase(c, w) = "right" -> p + RightOffset(i, c, w)
      [] OTHER -> p + InteriorOffset(i)

\* the pixels of rgbaIn[0] and rgbaIn[1]: 8 pixels, of which _rgbaIn holds 7
Window(buf, n, c, w, p) ==
    [j \in 0..(4 * REGISTERS_CNT - 1) |->
        IF j < KERNEL_SIZE THEN Read(buf, n, SlotIndex(j, c, w, p))
        ELSE IF BorderCase(c, w) = "interior" THEN Read(buf, n, p + InteriorOffset(j))
        ELSE stackPix]

\* indices of the source buffer read for one output pixel
Reads(c, w, p) ==
    {SlotIndex(i, c, w, p) : i \in 0..(KERNEL_SIZE - 1)}
    \cup (IF BorderCase(c, w) = "interior"
          THEN {p + InteriorOffset(j) : j \in 0..(4 * REGISTERS_CNT - 1)} ELSE {})

\* elements of _rgbaIn touched by _mm_load_si128(_rgbaIn + 4*k), k < REGISTERS_CNT
TmpElems(c, w) ==
    IF BorderCase(c, w) = "interior" THEN {}
    ELSE {4 * k + j : k \in 0..(REGISTERS_CNT - 1), j \in 0..3}

\* ------------------------------------------------------------ SIMD helpers
\* a register of 4 pixels
Reg(win, k) == <<win[4 * k], win[4 * k + 1], win[4 * k + 2], win[4 * k + 3]>>

\* _mm_unpacklo_epi8(reg, zero): 8 lanes of 16 bits, the bytes of pixels 1, 2
unpacklo_epi8(reg) ==
    <<reg[1][1], reg[1][2], reg[1][3], reg[1][4], reg[2][1], reg[2][2], reg[2][3], reg[2][4]>>

\* _mm_unpackhi_epi8(reg, zero): the bytes of pixels 3, 4
unpackhi_epi8(reg) ==
    <<reg[3][1], reg[3][2], reg[3][3], reg[3][4], reg[4][1], reg[4][2], reg[4][3], reg[4][4]>>

add_epi16(a, b) == [l \in 1..8 |-> (a[l] + b[l]) % 65536]

\* the eighth pixel left in the sum
MaskNothing(v) == v

\* _mm_andnot_si128(_mm_set_epi32(0xFFFFFFFF, 0xFFFFFFFF, 0, 0), v): the upper
\* 64 bits (lanes 5..8) are cleared
MaskEighth(v) == [l \in 1..8 |-> IF l <= 4 THEN v[l] ELSE 0]

\* _mm_unpacklo_epi16(v, zero) / _mm_unpackhi_epi16(v, zero): 4 lanes of 32 bits
unpacklo_epi16(v) == <<v[1], v[2], v[3], v[4]>>
unpackhi_epi16(v) == <<v[5], v[6], v[7], v[8]>>

add_epi32(a, b) == [l \in 1..4 |-> a[l] + b[l]]

\* round to nearest, ties to even, of num / den (den > 0)
RoundEven(num, den) ==
    LET q == num \div den
        r == num % den
    IN  IF 2 * r > den \/ (2 * r = den /\ q % 2 = 1) THEN q + 1 ELSE q

\* 1/((float)KERNEL_SIZE) is the float 9586981 * 2^-26 = RecipHi * 2^-13 + RecipLo * 2^-26
RecipHi == 1170
RecipLo == 2341

\* _mm_cvtps_epi32(_mm_mul_ps(_mm_cvtepi32_ps(x), _mm_set1_ps(1/7f))) of one lane
MulRecipCvt(x) ==
    LET t == x * RecipHi + (x * RecipLo) \div 8192
        low == (x * RecipLo) % 8192
        q == t \div 8192
        frac == (t % 8192) * 8192 + low
    IN  IF frac > 33554432 \/ (frac = 33554432 /\ q % 2 = 1) THEN q + 1 ELSE q

\* _mm_packs_epi32: signed saturation to 16 bits
packs_epi32(x) == IF x > 32767 THEN 32767 ELSE IF x < -32768 THEN -32768 ELSE x
\* _mm_packus_epi16: unsigned saturation to 8 bits
packus_epi16(x) == IF x > 255 THEN 255 ELSE IF x < 0 THEN 0 ELSE x

\* _mm_cvtsi128_si32(_mm_packus_epi16(_mm_packs_epi32(acc, zero), zero))
PackPixel(acc) == [ch \in Channels |-> packus_epi16(packs_epi32(acc[ch]))]

\* ------------------------------------------------------- the SSE2 convolution
\* the 32-bit lanes of acc before the multiplication
Sse2Acc(win) ==
    LET a1 == add_epi16(<<0, 0, 0, 0, 0, 0, 0, 0>>, unpacklo_epi8(Reg(win, 0)))
        a2 == add_epi16(a1, unpackhi_epi8(Reg(win, 0)))
        a3 == add_epi16(a2, unpacklo_epi8(Reg(win, 1)))
        a4 == add_epi16(a3, MaskEighth(unpackhi_epi8(Reg(win, 1))))
    IN  add_epi32(unpacklo_epi16(a4), unpackhi_epi16(a4))

Sse2Out(win) ==
    LET acc == Sse2Acc(win)
    IN  PackPixel([ch \in Channels |-> MulRecipCvt(acc[ch])])

\* -------------------------------------------------------- the AVX convolution
\* kernels[i]: the pair of broadcast weights; only HALF_KERNEL entries exist
Kernels(ker, i) ==
    IF i < HALF_KERNEL THEN <<ker[2 * i], ker[2 * i + 1]>> ELSE <<stackKer, stackKer>>

\* rgbaIn[k]: only REGISTERS_CNT registers exist
RgbaIn(win, k) ==
    IF k < REGISTERS_CNT THEN Reg(win, k) ELSE <<stackPix, stackPix, stackPix, stackPix>>

\* the multiply-accumulate steps: <<index into kernels, register, half>>,
\* half 0 = _mm_unpacklo_epi8, half 1 = _mm_unpackhi_epi8
AvxSteps == <<<<0, 0, 0>>, <<1, 0, 1>>, <<2, 1, 0>>, <<3, 1, 1>>, <<4, 2, 0>>, <<5, 2, 1>>, <<6, 3, 0>>>>

\* one _mm256_mul_ps(rgba_ps, kernels[counter]): 8 lanes
AvxTerm(ker, win, st) ==
    LET kp == Kernels(ker, st[1])
        r == RgbaIn(win, st[2])
        t == IF st[3] = 0 THEN unpacklo_epi8(r) ELSE unpackhi_epi8(r)
    IN  [l \in 1..8 |-> t[l] * (IF l <= 4 THEN kp[1] ELSE kp[2])]

RECURSIVE AvxAccumulate(_, _, _)
AvxAccumulate(ker, win, n) ==
    IF n = 0 THEN <<0, 0, 0, 0, 0, 0, 0, 0>>
    ELSE LET a == AvxAccumulate(ker, win, n - 1)
             t == AvxTerm(ker, win, AvxSteps[n])
         IN  [l \in 1..8 |-> a[l] + t[l]]

\* rgba_ps_128 before the conversion to integers, scaled by KScale
AvxAcc(ker, win) ==
    LET acc == AvxAccumulate(ker, win, Len(AvxSteps))
        tail == unpacklo_epi16(unpackhi_epi8(RgbaIn(win, 3)))
    IN  [ch \in Channels |-> tail[ch] * ker[KERNEL_SIZE - 1] + (acc[ch] + acc[ch + 4])]

AvxOut(ker, win) ==
    LET acc == AvxAcc(ker, win)
    IN  PackPixel([ch \in Channels |-> RoundEven(acc[ch], KScale)])

\* indices of rgbaIn and of kernels used for one output pixel
AvxRegs == {AvxSteps[n][2] : n \in 1..Len(AvxSteps)} \cup {3}
AvxKers == {AvxSteps[n][1] : n \in 1..Len(AvxSteps)}
Sse2Regs == {0, 1}

\* ------------------------------------------------------------ the two passes
\* width and height as the running pass sees them
PassW == IF pc = "pass1" THEN width ELSE height
PassH == IF pc = "pass1" THEN height ELSE width
Pixels == width * height

NoIter ==
    [case |-> "none", pass |-> 0, row |-> 0, column |-> 0, pos |-> 0, w |-> 0, h |-> 0,
     slotIdx |-> <<>>, window |-> <<>>, reads |-> {}, regs |-> {}, kers |-> {}, tmp |-> {},
     acc |-> Black, out |-> Black, storeIdx |-> 0]

Iteration ==
    LET be == backend
        from == IF pc = "pass1" THEN src ELSE dst
        w == PassW
        h == PassH
        win == Window(from, Pixels, column, w, pos)
        out == IF be = "sse2" THEN Sse2Out(win) ELSE AvxOut(kernel, win)
        at == StoreIndex(h, column, row)
    IN  /\ pc \in {"pass1", "pass2"}
        /\ row < h
        /\ column < w
        /\ IF pc = "pass1"
           THEN /\ dst' = [dst EXCEPT ![at] = out]
                /\ UNCHANGED <<src, trace2, written>>
           ELSE /\ src' = [src EXCEPT ![at] = out]
                /\ trace2' = Append(trace2, out)
                /\ written' = written \cup {at}
                /\ UNCHANGED dst
        /\ last' = [case |-> BorderCase(column, w), pass |-> IF pc = "pass1" THEN 1 ELSE 2,
                    row |-> row, column |-> column, pos |-> pos, w |-> w, h |-> h,
                    slotIdx |-> [i \in 0..(KERNEL_SIZE - 1) |-> SlotIndex(i, column, w, pos)],
                    window |-> win,
                    reads |-> Reads(column, w, pos),
                    regs |-> IF be = "sse2" THEN Sse2Regs ELSE AvxRegs,
                    kers |-> IF be = "sse2" THEN {} ELSE AvxKers,
                    tmp |-> TmpElems(column, w),
                    acc |-> IF be = "sse2" THEN Sse2Acc(win) ELSE AvxAcc(kernel, win),
                    out |-> out, storeIdx |-> at]
        /\ pos' = pos + 1
        /\ IF column + 1 < w
           THEN column' = column + 1 /\ row' = row
           ELSE column' = 0 /\ row' = row + 1
        /\ UNCHANGED <<backend, width, height, sigma, kernel, orig, heapOob, stackPix, stackKer,
                       pc, call, firstOut>>

\* blur_impl_sse2 / blur_impl_avx up to the first call of the horizontal pass
Enter ==
    /\ pc = "call"
    /\ kernel' = BuildKernel(sigma)
    /\ pc' = "pass1"
    /\ row' = 0 /\ column' = 0 /\ pos' = 0
    /\ UNCHANGED <<backend, width, height, sigma, src, dst, orig, heapOob, stackPix, stackKer,
                   last, trace2, written, call, firstOut>>

blur_impl_sse2 ==
    /\ backend = "sse2"
    /\ Enter

blur_impl_avx ==
    /\ backend = "avx"
    /\ Enter

\* one iteration of the inner loop of the pass of each backend
blur_impl_horizontal_pass_sse2 ==
    /\ backend = "sse2"
    /\ Iteration

blur_impl_horizontal_pass_avx ==
    /\ backend = "avx"
    /\ Iteration

\* the first pass returned: the pass is called again on (dst, src, height, width)
SecondPass ==
    /\ pc = "pass1"
    /\ row = PassH
    /\ pc' = "pass2"
    /\ row' = 0 /\ column' = 0 /\ pos' = 0
    /\ UNCHANGED <<backend, width, height, sigma, kernel, src, dst, orig, heapOob, stackPix,
                   stackKer, last, trace2, written, call, firstOut>>

\* the second pass returned: blur_impl_* returns
Return ==
    /\ pc = "pass2"
    /\ row = PassH
    /\ pc' = "done"
    /\ UNCHANGED <<backend, width, height, sigma, kernel, src, dst, orig, heapOob, stackPix,
                   stackKer, row, column, pos, last, trace2, written, call, firstOut>>

\* a caller invoking the same backend again on the same input; the memory
\* around the buffers and the stack may hold something else by then
CallAgain ==
    /\ pc = "done"
    /\ call = 1
    /\ call' = 2
    /\ firstOut' = src
    /\ src' = orig
    /\ \E hp \in GarbagePixels, sp \in GarbagePixels, sk \in GarbageWeights :
          heapOob' = hp /\ stackPix' = sp /\ stackKer' = sk
    /\ pc' = "call"
    /\ last' = NoIter
    /\ trace2' = <<>>
    /\ written' = {}
    /\ row' = 0 /\ column' = 0 /\ pos' = 0
    /\ UNCHANGED <<backend, width, height, sigma, kernel, dst, orig>>

InitWith(dims, kinds) ==
    /\ backend \in Backends
    /\ \E d \in dims : width = d[1] /\ height = d[2]
    /\ sigma \in Sigmas
    /\ \E kind \in kinds : orig = Image(kind, width * height)
    /\ src = orig
    /\ dst = [i \in 0..(width * height - 1) |-> Black]
    /\ heapOob \in GarbagePixels
    /\ stackPix \in GarbagePixels
    /\ stackKer \in GarbageWeights
    /\ kernel = [i \in 0..(KERNEL_SIZE - 1) |-> 0]
    /\ pc = "call"
    /\ row = 0 /\ column = 0 /\ pos = 0
    /\ last = NoIter
    /\ trace2 = <<>>
    /\ written = {}
    /\ call = 1
    /\ firstOut = <<>>

Init == InitWith(Dims, ImageKinds)

Next ==
    \/ blur_impl_sse2
    \/ blur_impl_avx
    \/ blur_impl_horizontal_pass_sse2
    \/ blur_impl_horizontal_pass_avx
    \/ SecondPass
    \/ Return

Spec == Init /\ [][Next]_vars

InitTwice == InitWith(TwiceDims, {"flatRed", "ramp"})

NextTwice == Next \/ CallAgain

SpecTwice == InitTwice /\ [][NextTwice]_vars

\* ------------------------------------------------------------------ claims
\* the buffer the last iteration read from: src in pass 1, dst in pass 2
LastFrom == IF last.pass = 1 THEN src ELSE dst
Iterated == last.case # "none"

\* C1: the first pass stores the output for source row r, column c at
\* dst[height*c + r], the second pass stores the output for its row c, column r
\* at src[width*r + c]; when the call has returned every index of src has been
\* overwritten and src[width*r + c] holds the value the second pass computed
\* for its row c, column r.
C1_TransposedStores ==
    /\ (Iterated /\ last.pass = 1) => dst[height * last.column + last.row] = last.out
    /\ (Iterated /\ last.pass = 2) => src[width * last.column + last.row] = last.out
    /\ pc = "done" =>
          /\ written = 0..(width * height - 1)
          /\ \A r \in 0..(height - 1), c \in 0..(width - 1) :
                src[width * r + c] = trace2[c * height + r + 1]

C1_Witness ==
    /\ pc = "done"
    /\ width = 3 /\ height = 5
    /\ \E i \in 0..(width * height - 1) : src[i] # orig[i]

\* C2: with width, height >= 7 every read of the pass's source buffer is at an
\* index in [0, width*height).
C2_ReadsInBounds ==
    (Iterated /\ last.w >= KERNEL_SIZE /\ last.h >= KERNEL_SIZE)
        => last.reads \subseteq 0..(last.w * last.h - 1)

\* C3: with width, height >= 4 a flat image is a fixed point: if every pixel of
\* src equals p before the call, every pixel of src equals p after it.
C3_FlatFixedPoint ==
    (/\ pc = "done"
     /\ width >= 4 /\ height >= 4
     /\ \A i \in 0..(Pixels - 1) : orig[i] = orig[0])
        => \A i \in 0..(Pixels - 1) : src[i] = orig[0]

\* sum over the window slots i = 0..n-1 of kernel[i] times channel ch of slot i
RECURSIVE WeightedSum(_, _, _, _)
WeightedSum(ker, win, ch, n) ==
    IF n = 0 THEN 0
    ELSE WeightedSum(ker, win, ch, n - 1) + ker[n - 1] * win[n - 1][ch]

\* C4: in the AVX pass the accumulated value of every channel is the sum over
\* the window slots i = 0..6 of kernel[i] times that channel of window pixel i.
C4_AvxWeightedSum ==
    (Iterated /\ backend = "avx")
        => \A ch \in Channels : last.acc[ch] = WeightedSum(kernel, last.window, ch, KERNEL_SIZE)

\* C5: with width >= 7 each of the 7 window pixels of the output at row r is
\* read from row r, i.e. from an index in [r*width, r*width + width - 1].
C5_WindowInRow ==
    (Iterated /\ last.w >= KERNEL_SIZE)
        => \A i \in 0..(KERNEL_SIZE - 1) :
              last.slotIdx[i] \in (last.row * last.w)..(last.row * last.w + last.w - 1)

\* C6: a second invocation of the same backend with the same src contents,
\* width, height and sigma leaves the same contents in src as the first.
C6_SameOutput ==
    (pc = "done" /\ call = 2) => src = firstOut

\* C7 as stated: in the right-border case slots 0 .. width-column-1 hold columns
\* column .. width-1 and the remaining slots step backward from the last
\* loaded pixel, column width-1.
C7_ReflectFromLastLoaded ==
    (Iterated /\ last.case = "right") =>
        \A i \in 0..(KERNEL_SIZE - 1) :
            LET avail == last.w - last.column
                col == IF i < avail THEN last.column + i ELSE (last.w - 1) - (i - avail)
            IN  last.slotIdx[i] = last.row * last.w + col

\* C7 amended: in the right-border case slots 0 .. width-column-1 hold columns
\* column .. width-1 and the remaining slots step backward from the current
\* column: slot width-column+k holds the pixel k places before the current one.
C7_ReflectFromCurrent ==
    (Iterated /\ last.case = "right") =>
        \A i \in 0..(KERNEL_SIZE - 1) :
            LET avail == last.w - last.column
                col == IF i < avail THEN last.column + i ELSE last.column - (i - avail)
            IN  /\ last.slotIdx[i] = last.row * last.w + col
                /\ last.window[i] = Read(LastFrom, Pixels, last.row * last.w + col)

C7_Witness ==
    /\ Iterated /\ last.case = "right"
    /\ last.w >= KERNEL_SIZE
    /\ last.column = last.w - 2
    /\ last.row > 0
    /\ last.window[2] # last.window[1]

RECURSIVE ChannelSum(_, _, _)
ChannelSum(win, ch, n) ==
    IF n = 0 THEN 0 ELSE ChannelSum(win, ch, n - 1) + win[n - 1][ch]

\* C9: in the SSE2 pass every output channel is the sum of that channel over
\* the window slots 0..6 (the 8th loaded pixel contributes 0), divided by 7,
\* rounded to the nearest integer and clamped to 0..255; the kernel does not
\* enter the result.
C9_Sse2BoxFilter ==
    (Iterated /\ backend = "sse2") =>
        \A ch \in Channels :
            LET sum == ChannelSum(last.window, ch, KERNEL_SIZE)
                avg == (2 * sum + KERNEL_SIZE) \div (2 * KERNEL_SIZE)
            IN  last.out[ch] = IF avg > 255 THEN 255 ELSE avg

C9_Witness ==
    /\ Iterated /\ backend = "sse2"
    /\ last.case = "interior"
    /\ last.window[KERNEL_SIZE] # Black
    /\ \E ch \in Channels : ChannelSum(last.window, ch, KERNEL_SIZE) % KERNEL_SIZE = 4

\* C10: every access to a function-local array stays within its declared
\* length: rgbaIn is indexed at 0..1 only, kernels at 0..2 only, and the
\* 4-pixel loads from _rgbaIn touch elements 0..6 only.
C10_LocalArraysInBounds ==
    Iterated =>
        /\ last.regs \subseteq 0..(REGISTERS_CNT - 1)
        /\ last.kers \subseteq 0..(HALF_KERNEL - 1)
        /\ last.tmp \subseteq 0..(KERNEL_SIZE - 1)

====
